---- MODULE Spec2Model ----
(***************************************************************************)
(* Model of dropbox_du.py: the Node tree (add_path, total_size, find,      *)
(* disk_usage), the index reader (split_path, read_index, make_tree) and   *)
(* the pickle cache (load_tree).                                           *)
(*                                                                         *)
(* A Python str is a sequence of one-character strings, so that split,     *)
(* lower, splitext and the lexicographic sort are computed, not assumed.   *)
(* A Node is a record; a directory has the field children (a function from *)
(* segment to Node, the dict of line 65), a file has no such field (line   *)
(* 64 skips the assignment).  The parent back-reference of line 66 is the  *)
(* nesting itself: Node(child, ..., parent=self) is only ever stored in    *)
(* self.children[child] (lines 72, 75).                                    *)
(***************************************************************************)
EXTENDS Integers, Sequences, FiniteSets, TLC

VARIABLES root, last, memoThenAdd, log, phase, index, pickles, loaded

vars == <<root, last, memoThenAdd, log, phase, index, pickles, loaded>>

-----------------------------------------------------------------------------
(* Bounds *)

MaxSize == 1

MaxAdds == 3

-----------------------------------------------------------------------------
(* Python values *)

None == -1

\* float('nan'), what read_csv gives for the empty size field of a directory
NaN == -2

Sizes == 0..MaxSize

SL == <<"/">>

segA == <<"a">>

segB == <<"b">>

\* No Node: what a variable holds before its assignment, or after a raise
NoNode == [none |-> TRUE]

Raise(self, exc, key) == [node |-> self, err |-> exc, key |-> key]

Return(self) == [node |-> self, err |-> "", key |-> <<>>]

-----------------------------------------------------------------------------
(* split_path *)

IndexOf(s, c) == IF \E i \in 1..Len(s) : s[i] = c
                 THEN CHOOSE i \in 1..Len(s) : s[i] = c /\ \A j \in 1..(i-1) : s[j] # c
                 ELSE 0

RECURSIVE str_split(_, _)
str_split(s, sep) ==
  LET i == IndexOf(s, sep) IN
  IF i = 0 THEN <<s>>
  ELSE <<SubSeq(s, 1, i - 1)>> \o str_split(SubSeq(s, i + 1, Len(s)), sep)

split_path(path) == SelectSeq(str_split(path, "/"), LAMBDA p : Len(p) > 0)

-----------------------------------------------------------------------------
(* class Node *)

\* Mutant: line 64's test dropped, every node gets a children dict
NodeAlwaysChildren(name, is_dir, size) ==
  [name |-> name, size |-> size, is_dir |-> is_dir, children |-> <<>>]

Node(name, is_dir, size) ==
  IF is_dir
  THEN [name |-> name, size |-> size, is_dir |-> is_dir, children |-> <<>>]
  ELSE [name |-> name, size |-> size, is_dir |-> is_dir]

HasChildren(self) == "children" \in DOMAIN self

RECURSIVE add_path(_, _, _, _)
add_path(self, path, is_dir, size) ==
  IF Len(path) = 0 THEN Raise(self, "IndexError", <<>>)
  ELSE
  LET child == path[1] IN
  IF Len(path) > 1 THEN
    IF ~HasChildren(self) THEN Raise(self, "AttributeError", child)
    ELSE
      LET made == IF child \in DOMAIN self.children
                  THEN self
                  ELSE [self EXCEPT !.children = (child :> Node(child, TRUE, None)) @@ @]
          r == add_path(made.children[child], Tail(path), is_dir, size)
      IN [r EXCEPT !.node = [made EXCEPT !.children = (child :> r.node) @@ @]]
  ELSE
    IF ~HasChildren(self) THEN Raise(self, "AttributeError", child)
    ELSE Return([self EXCEPT !.children = (child :> Node(child, is_dir, size)) @@ @])

RECURSIVE SumOver(_, _)
SumOver(f, S) ==
  IF S = {} THEN 0
  ELSE LET k == CHOOSE x \in S : TRUE IN f[k] + SumOver(f, S \ {k})

\* Mutant: line 85 without "and self.size is None", the sum is redone on every call
RECURSIVE total_size_recompute(_)
total_size_recompute(self) ==
  IF self.is_dir THEN
    LET res == [k \in DOMAIN self.children |-> total_size_recompute(self.children[k])]
        s == SumOver([k \in DOMAIN res |-> res[k].value], DOMAIN res)
    IN [node |-> [self EXCEPT !.size = s,
                              !.children = [k \in DOMAIN res |-> res[k].node]],
        value |-> s]
  ELSE [node |-> self, value |-> self.size]

\* Mutant: line 86 adds up child.size of the file children only, without recursion
total_size_files_only(self) ==
  IF self.is_dir /\ self.size = None THEN
    LET files == {k \in DOMAIN self.children : ~self.children[k].is_dir}
        s == SumOver([k \in files |-> self.children[k].size], files)
    IN [node |-> [self EXCEPT !.size = s], value |-> s]
  ELSE [node |-> self, value |-> self.size]

RECURSIVE total_size(_)
total_size(self) ==
  IF self.is_dir /\ self.size = None THEN
    LET res == [k \in DOMAIN self.children |-> total_size(self.children[k])]
        s == SumOver([k \in DOMAIN res |-> res[k].value], DOMAIN res)
    IN [node |-> [self EXCEPT !.size = s,
                              !.children = [k \in DOMAIN res |-> res[k].node]],
        value |-> s]
  ELSE [node |-> self, value |-> self.size]

getitem(self, key) ==
  IF ~HasChildren(self) THEN Raise(self, "AttributeError", key)
  ELSE IF key \notin DOMAIN self.children THEN Raise(self, "KeyError", key)
  ELSE Return(self.children[key])

RECURSIVE find_loop(_, _, _)
find_loop(node, path_parts, at) ==
  IF Len(path_parts) > 0 THEN
    LET r == getitem(node, path_parts[1]) IN
    IF r.err # "" THEN [r EXCEPT !.node = NoNode] @@ [at |-> at]
    ELSE find_loop(r.node, Tail(path_parts), Append(at, path_parts[1]))
  ELSE Return(node) @@ [at |-> at]

\* Mutant: line 97 splits on '/' without dropping the empty parts
find_unfiltered(self, path) == find_loop(self, str_split(path, "/"), <<>>)

find(self, path) == find_loop(self, split_path(path), <<>>)

-----------------------------------------------------------------------------
(* Positions in the tree: the chain of keys from the root to a node *)

RECURSIVE NodeAt(_, _)
NodeAt(node, at) ==
  IF at = <<>> THEN node ELSE NodeAt(node.children[at[1]], Tail(at))

RECURSIVE Exists(_, _)
Exists(node, at) ==
  \/ at = <<>>
  \/ /\ HasChildren(node)
     /\ at[1] \in DOMAIN node.children
     /\ Exists(node.children[at[1]], Tail(at))

RECURSIVE ReplaceAt(_, _, _)
ReplaceAt(node, at, new) ==
  IF at = <<>> THEN new
  ELSE [node EXCEPT !.children =
          (at[1] :> ReplaceAt(node.children[at[1]], Tail(at), new)) @@ @]

RECURSIVE Positions(_)
Positions(node) ==
  {<<>>} \cup
  (IF HasChildren(node)
   THEN UNION {{<<k>> \o p : p \in Positions(node.children[k])} : k \in DOMAIN node.children}
   ELSE {})

-----------------------------------------------------------------------------
(* Node.disk_usage *)

\* '%.2f' % (100 * size / self_size), in hundredths of a percent, rounded
size_perc(size, self_size) == (2 * 10000 * size + self_size) \div (2 * self_size)

Row(name, node, size, self_size) ==
  [name |-> IF node.is_dir THEN Append(name, "/") ELSE name,
   size |-> size,
   size_perc |-> size_perc(size, self_size)]

\* All arrangements of a finite set as sequences
Orderings(S) ==
  {o \in [1..Cardinality(S) -> S] : \A i, j \in 1..Cardinality(S) : i # j => o[i] # o[j]}

\* df_children.sort('size', ascending=False): sorted by size only
SortedBySizeDesc(rows) == \A i \in 1..(Len(rows) - 1) : rows[i].size >= rows[i + 1].size

\* self is the node after line 105; iter is the iteration order of the dict
\* self.children (line 109), out the order of the rows after the sort (line 120)
disk_usage_rows(self, self_size, iter, out) ==
  IF ~HasChildren(self)
  THEN [node |-> self, err |-> "AttributeError", self_size |-> self_size, rows |-> <<>>]
  ELSE IF Len(iter) = 0
  THEN [node |-> self, err |-> "", self_size |-> self_size, rows |-> <<>>]
  ELSE IF self_size = 0
  THEN \* the first child's total_size() ran (line 110), then line 115 divides by 0
       [node |-> [self EXCEPT !.children =
                    (iter[1] :> total_size(self.children[iter[1]]).node) @@ @],
        err |-> "ZeroDivisionError", self_size |-> self_size, rows |-> <<>>]
  ELSE LET res == [k \in DOMAIN self.children |-> total_size(self.children[k])]
       IN [node |-> [self EXCEPT !.children = [k \in DOMAIN res |-> res[k].node]],
           err |-> "",
           self_size |-> self_size,
           rows |-> [i \in 1..Len(out) |->
                       Row(out[i], self.children[out[i]], res[out[i]].value, self_size)]]

-----------------------------------------------------------------------------
(* Inputs *)

PathLists == {<<segA>>, <<segB>>, <<segA, segB>>}

\* (path, is_dir, size) with is_dir = isnull(size), as read_index derives it
Records == {[path_list |-> p, is_dir |-> (s = None), size |-> s] :
              p \in PathLists, s \in Sizes \cup {None}}

Queries == {<<>>, SL, SL \o segA, SL \o segA \o SL \o segB, SL \o segB,
            segA \o SL \o SL \o segB \o SL, SL \o segB \o SL \o segA,
            SL \o segA \o SL \o segB \o SL \o segA}

RECURSIVE Memoized(_)
Memoized(node) ==
  HasChildren(node) /\
    (node.size # None \/ \E k \in DOMAIN node.children : Memoized(node.children[k]))

NoResult == [op |-> "init", arg |-> <<>>, err |-> "", key |-> <<>>, val |-> None, rows |-> <<>>]

-----------------------------------------------------------------------------
(* Spec: one tree, add_path / total_size / find / disk_usage in any order *)

Init ==
  /\ root = Node(<<>>, TRUE, None)
  /\ last = NoResult
  /\ memoThenAdd = FALSE
  /\ log = <<>>
  /\ phase = "build"
  /\ index = <<>>
  /\ pickles = <<>>
  /\ loaded = NoNode

AddPath(rec) ==
  LET r == add_path(root, rec.path_list, rec.is_dir, rec.size) IN
  /\ root' = r.node
  /\ last' = [NoResult EXCEPT !.op = "add_path", !.arg = rec, !.err = r.err, !.key = r.key]
  /\ memoThenAdd' = (memoThenAdd \/ Memoized(root))
  /\ UNCHANGED <<log, phase, index, pickles, loaded>>

TotalSize(at) ==
  LET r == total_size(NodeAt(root, at)) IN
  /\ root' = ReplaceAt(root, at, r.node)
  /\ last' = [NoResult EXCEPT !.op = "total_size", !.arg = at, !.val = r.value]
  /\ UNCHANGED <<memoThenAdd, log, phase, index, pickles, loaded>>

Find(path) ==
  LET r == find(root, path) IN
  /\ last' = [NoResult EXCEPT !.op = "find", !.arg = path, !.err = r.err, !.key = r.key,
                              !.val = [node |-> r.node, at |-> r.at]]
  /\ UNCHANGED <<root, memoThenAdd, log, phase, index, pickles, loaded>>

DiskUsage(at) ==
  LET ts == total_size(NodeAt(root, at))
      keys == IF HasChildren(ts.node) THEN DOMAIN ts.node.children ELSE {}
  IN \E iter \in Orderings(keys), out \in Orderings(keys) :
       LET r == disk_usage_rows(ts.node, ts.value, iter, out) IN
       /\ SortedBySizeDesc(r.rows)
       /\ \/ /\ root' = ReplaceAt(root, at, r.node)
             /\ last' = [NoResult EXCEPT !.op = "disk_usage", !.arg = at, !.err = r.err,
                                         !.val = r.self_size, !.rows = r.rows]
          \/ \* DataFrame.from_records of no rows has no 'name' column (line 118)
             /\ keys = {}
             /\ HasChildren(ts.node)
             /\ root' = ReplaceAt(root, at, r.node)
             /\ last' = [NoResult EXCEPT !.op = "disk_usage", !.arg = at, !.err = "KeyError",
                                         !.key = <<"n", "a", "m", "e">>, !.val = r.self_size]
       /\ UNCHANGED <<memoThenAdd, log, phase, index, pickles, loaded>>

Next ==
  \/ \E rec \in Records : AddPath(rec)
  \/ \E at \in Positions(root) : TotalSize(at)
  \/ \E path \in Queries : Find(path)
  \/ \E at \in Positions(root) : DiskUsage(at)

Spec == Init /\ [][Next]_vars

-----------------------------------------------------------------------------
(* Claims checked under Spec *)

CharCode == [c \in {"/", ".", "A", "B", "_", "a", "b", "l", "t"} |->
               CASE c = "." -> 46 [] c = "/" -> 47 [] c = "A" -> 65 [] c = "B" -> 66
                 [] c = "_" -> 95 [] c = "a" -> 97 [] c = "b" -> 98 [] c = "l" -> 108
                 [] c = "t" -> 116]

\* s < t for Python str
RECURSIVE StrLess(_, _)
StrLess(s, t) ==
  IF Len(t) = 0 THEN FALSE
  ELSE IF Len(s) = 0 THEN TRUE
  ELSE IF s[1] # t[1] THEN CharCode[s[1]] < CharCode[t[1]]
  ELSE StrLess(Tail(s), Tail(t))

\* The value total_size() returns on the node at a position
SizeAt(at) == total_size(NodeAt(root, at)).value

ChildKeys(at) == DOMAIN NodeAt(root, at).children

\* A proper prefix of path resolves to a file node
FileAncestor(node, path) ==
  \E k \in 1..(Len(path) - 1) :
    Exists(node, SubSeq(path, 1, k)) /\ ~NodeAt(node, SubSeq(path, 1, k)).is_dir

\* C3 (state part): find(root, "/") and find(root, "") return root; a path whose
\* segments name an existing chain of children returns the node at the end of the
\* chain; a segment absent among the children of the directory reached so far makes
\* find raise KeyError for that first absent segment, and no node is returned.
C3FindResult ==
  last.op = "find" =>
    LET parts == split_path(last.arg) IN
    /\ last.arg \in {<<>>, SL} =>
         last.err = "" /\ last.val.at = <<>> /\ last.val.node = root
    /\ Exists(root, parts) =>
         last.err = "" /\ last.val.at = parts /\ last.val.node = NodeAt(root, parts)
    /\ \A k \in 1..Len(parts) :
         LET pre == SubSeq(parts, 1, k - 1) IN
         (/\ Exists(root, pre)
          /\ HasChildren(NodeAt(root, pre))
          /\ parts[k] \notin DOMAIN NodeAt(root, pre).children)
         => (last.err = "KeyError" /\ last.key = parts[k] /\ last.val.at = pre
             /\ last.val.node = NoNode)

\* C3: lookup correctness (C3FindResult after every find), and find never changes
\* the tree.
C3Lookup == [](C3FindResult) /\ [][last'.op = "find" => root' = root]_vars

\* C3 witness: a find that descended one level and failed there with KeyError
C3Witness ==
  /\ last.op = "find"
  /\ last.err = "KeyError"
  /\ Len(last.val.at) = 1
  /\ ChildKeys(<<>>) = {segA, segB}

\* C5 as claimed: one row per direct child, ordered by total size descending, and
\* children of equal total size in ascending lexicographic order of their names.
C5RowsOrderedWithTieBreak ==
  (last.op = "disk_usage" /\ last.err = "" /\ HasChildren(NodeAt(root, last.arg))) =>
    /\ Len(last.rows) = Cardinality(ChildKeys(last.arg))
    /\ \A k \in ChildKeys(last.arg) :
         \E i \in 1..Len(last.rows) :
           /\ last.rows[i].size = SizeAt(Append(last.arg, k))
           /\ last.rows[i].name \in {k, Append(k, "/")}
    /\ \A i \in 1..(Len(last.rows) - 1) :
         \/ last.rows[i].size > last.rows[i + 1].size
         \/ /\ last.rows[i].size = last.rows[i + 1].size
            /\ StrLess(last.rows[i].name, last.rows[i + 1].name)

\* C6 as claimed, for a directory that has children: when total_size(node) is 0,
\* disk_usage(node) completes with one row per child, each with percentage 0.0.
C6ZeroSizeCompletes ==
  (/\ last.op = "disk_usage"
   /\ last.val = 0
   /\ HasChildren(NodeAt(root, last.arg))
   /\ ChildKeys(last.arg) # {}) =>
    /\ last.err = ""
    /\ Len(last.rows) = Cardinality(ChildKeys(last.arg))
    /\ \A i \in 1..Len(last.rows) : last.rows[i].size_perc = 0

\* Every directory with a cached size has the sum of the current total sizes of
\* its direct children as its cached size
CachedSizesAreSums ==
  \A at \in Positions(root) :
    LET d == NodeAt(root, at) IN
    (d.is_dir /\ d.size # None) =>
      d.size = SumOver([k \in DOMAIN d.children |-> SizeAt(Append(at, k))], DOMAIN d.children)

\* C9 as claimed: in every state reachable by any interleaving of add_path and
\* total_size, every cached directory size equals the sum of the current total
\* sizes of its direct children.
C9CacheConsistentAlways == CachedSizesAreSums

\* C9 amended: as long as no add_path call was made after a size had been cached,
\* every cached directory size equals the sum of the current total sizes of its
\* direct children; and in every reachable state, total_size on a directory with a
\* cached size returns the cached value and changes nothing.
C9CacheConsistentUntilAdd ==
  /\ [](~memoThenAdd => CachedSizesAreSums)
  /\ [][(/\ last'.op = "total_size"
         /\ NodeAt(root, last'.arg).is_dir
         /\ NodeAt(root, last'.arg).size # None)
        => (last'.val = NodeAt(root, last'.arg).size /\ root' = root)]_vars

\* C9 witness: total_size was called on a root whose cached size is the sum of two
\* children, with no add_path after the caching
C9Witness ==
  /\ last.op = "total_size"
  /\ last.arg = <<>>
  /\ ~memoThenAdd
  /\ root.size = 2
  /\ Cardinality(DOMAIN root.children) = 2

-----------------------------------------------------------------------------
(* make_tree *)

\* The loop of lines 133-137 over the rows left; an exception of add_path ends it
RECURSIVE make_tree_loop(_, _)
make_tree_loop(node, rows) ==
  IF Len(rows) = 0 THEN Return(node)
  ELSE LET size == IF rows[1].size = NaN THEN None ELSE rows[1].size
           r == add_path(node, rows[1].path_list, rows[1].is_dir, size) IN
       IF r.err # "" THEN r ELSE make_tree_loop(r.node, Tail(rows))

make_tree(rows) == make_tree_loop(Node(<<>>, TRUE, None), rows)

-----------------------------------------------------------------------------
(* SpecBuild: the rows of make_tree arrive in any order (log is the sequence of
   rows applied so far), then total_size is queried on the finished tree *)

\* The rows of a build reach one level deeper than the paths of Spec
BuildRecords ==
  Records \cup {[path_list |-> <<segA, segB, segA>>, is_dir |-> (s = None), size |-> s] :
                  s \in Sizes \cup {None}}

MakeTreeRow(rec) ==
  /\ phase = "build"
  /\ Len(log) < MaxAdds
  /\ LET r == add_path(root, rec.path_list, rec.is_dir, rec.size) IN
     /\ root' = r.node
     /\ phase' = IF r.err = "" THEN "build" ELSE "error"
     /\ last' = [NoResult EXCEPT !.op = "add_path", !.arg = rec, !.err = r.err, !.key = r.key]
  /\ log' = Append(log, rec)
  /\ UNCHANGED <<memoThenAdd, index, pickles, loaded>>

QueryTotalSize(at) ==
  /\ phase \in {"build", "query"}
  /\ phase' = "query"
  /\ LET r == total_size(NodeAt(root, at)) IN
     /\ root' = ReplaceAt(root, at, r.node)
     /\ last' = [NoResult EXCEPT !.op = "total_size", !.arg = at, !.val = r.value]
  /\ UNCHANGED <<memoThenAdd, log, index, pickles, loaded>>

NextBuild ==
  \/ \E rec \in BuildRecords : MakeTreeRow(rec)
  \/ \E at \in Positions(root) : QueryTotalSize(at)

SpecBuild == Init /\ [][NextBuild]_vars

-----------------------------------------------------------------------------
(* Claims checked under SpecBuild *)

\* The (path, total_size) pairs of a tree; the pair of the empty path is
\* total_size(root)
SizePairs(node) ==
  {<<at, total_size(NodeAt(node, at)).value>> : at \in Positions(node)}

Permuted(rows, f) == [i \in 1..Len(rows) |-> rows[f[i]]]

\* C1 as claimed, for records with pairwise distinct paths: every order of
\* insertion that raises no error yields the same (path, total_size) pairs, the
\* same total_size(root) included.
C1OrderIndependent ==
  (/\ phase = "build"
   /\ \A i, j \in 1..Len(log) : i # j => log[i].path_list # log[j].path_list) =>
    \A f \in Permutations(1..Len(log)) :
      LET t == make_tree(Permuted(log, f)) IN
      t.err = "" => SizePairs(t.node) = SizePairs(root)

\* The size of the last row inserted at a position
RECURSIVE InsertedSize(_, _)
InsertedSize(rows, at) ==
  IF rows[Len(rows)].path_list = at THEN rows[Len(rows)].size
  ELSE InsertedSize(SubSeq(rows, 1, Len(rows) - 1), at)

\* C2: in a tree built by add_path calls that raised no error, queried only after
\* the build, total_size of every directory is the sum of total_size over its
\* direct children (0 without children), and total_size of every file is the size
\* the file was inserted with.
C2SumInvariant ==
  phase \in {"build", "query"} =>
    \A at \in Positions(root) :
      IF NodeAt(root, at).is_dir
      THEN SizeAt(at) = SumOver([k \in ChildKeys(at) |-> SizeAt(Append(at, k))], ChildKeys(at))
      ELSE SizeAt(at) = InsertedSize(log, at)

\* C2 witness: total_size was queried on a finished tree whose root holds a file
\* and a directory that holds a file, all of size 1
C2Witness ==
  /\ phase = "query"
  /\ root.size = 2
  /\ Positions(root) = {<<>>, <<segA>>, <<segB>>, <<segA, segB>>}
  /\ SizeAt(<<segA>>) = 1
  /\ SizeAt(<<segB>>) = 1

\* C8 as claimed: add_path raises no error when a proper prefix of the inserted
\* path resolves to a file node.
C8NoErrorOnConflict ==
  [][(last'.op = "add_path" /\ FileAncestor(root, last'.arg.path_list)) => last'.err = ""]_vars

\* C8 amended: when a proper prefix of the inserted path resolves to a file node,
\* add_path raises AttributeError (the file node has no children attribute) and
\* leaves the tree as it was.
C8ConflictRaises ==
  [][(last'.op = "add_path" /\ FileAncestor(root, last'.arg.path_list))
       => (last'.err = "AttributeError" /\ root' = root)]_vars

\* C8 witness: an add_path of a three-segment path whose two-segment prefix is a
\* file node has raised
C8Witness ==
  /\ last.op = "add_path"
  /\ Len(last.arg.path_list) = 3
  /\ Exists(root, <<segA, segB>>)
  /\ ~NodeAt(root, <<segA, segB>>).is_dir
  /\ FileAncestor(root, last.arg.path_list)
  /\ last.err = "AttributeError"

-----------------------------------------------------------------------------
(* read_index *)

str_lower(str) ==
  [i \in 1..Len(str) |->
     CASE str[i] = "A" -> "a" [] str[i] = "B" -> "b" [] OTHER -> str[i]]

Digit == [c \in {"0", "1", "2", "3"} |->
            CASE c = "0" -> 0 [] c = "1" -> 1 [] c = "2" -> 2 [] c = "3" -> 3]

\* The size column as read_csv parses it: NaN for the empty field
RECURSIVE parse_size(_)
parse_size(field) ==
  IF Len(field) = 0 THEN NaN
  ELSE IF Len(field) = 1 THEN Digit[field[1]]
  ELSE 10 * parse_size(SubSeq(field, 1, Len(field) - 1)) + Digit[field[Len(field)]]

\* df.sort('path_lower'): the rows in ascending order of path_lower
sort_by_path_lower(rows) ==
  LET f == CHOOSE g \in Permutations(1..Len(rows)) :
             \A i \in 1..(Len(rows) - 1) :
               ~StrLess(rows[g[i + 1]].path_lower, rows[g[i]].path_lower)
  IN [i \in 1..Len(rows) |-> rows[f[i]]]

\* lines: the index file's lines, each the two tab-separated fields
read_index(lines) ==
  sort_by_path_lower(
    [i \in 1..Len(lines) |->
       [size |-> parse_size(lines[i].size),
        path_display |-> lines[i].path_display,
        path_lower |-> str_lower(lines[i].path_display),
        is_dir |-> (parse_size(lines[i].size) = NaN),
        path_list |-> split_path(str_lower(lines[i].path_display))]])

-----------------------------------------------------------------------------
(* The pickle cache *)

\* s.rfind(c), 1-based; 0 when c is not in s
RIndexOf(s, c) == IF \E i \in 1..Len(s) : s[i] = c
                  THEN CHOOSE i \in 1..Len(s) : s[i] = c /\ \A j \in (i + 1)..Len(s) : s[j] # c
                  ELSE 0

\* os.path.splitext: the extension starts at the last dot of the last component,
\* dots that lead the component apart
splitext(p) ==
  LET sepIndex == RIndexOf(p, "/")
      dotIndex == RIndexOf(p, ".")
  IN IF dotIndex > sepIndex /\ \E i \in (sepIndex + 1)..(dotIndex - 1) : p[i] # "."
     THEN <<SubSeq(p, 1, dotIndex - 1), SubSeq(p, dotIndex, Len(p))>>
     ELSE <<p, <<>>>>

TreePickle == <<"_", "t", "r", "e", "e", ".", "p", "i", "c", "k", "l", "e">>

pickle_file(index_file) == splitext(index_file)[1] \o TreePickle

\* pickle.dump: the object graph written out node by node, each node with its
\* attributes, the dict key it is stored under and a reference to its parent
RECURSIVE pickle_dump_node(_, _, _, _)
RECURSIVE pickle_dump_children(_, _, _, _)
pickle_dump_node(node, key, parent, acc) ==
  LET entry == [key |-> key, name |-> node.name, size |-> node.size,
                is_dir |-> node.is_dir, has_children |-> HasChildren(node),
                parent |-> parent]
  IN IF HasChildren(node)
     THEN pickle_dump_children(node, DOMAIN node.children, Len(acc) + 1, Append(acc, entry))
     ELSE Append(acc, entry)

pickle_dump_children(node, keys, me, acc) ==
  IF keys = {} THEN acc
  ELSE LET k == CHOOSE x \in keys : TRUE IN
       pickle_dump_children(node, keys \ {k}, me,
                            pickle_dump_node(node.children[k], k, me, acc))

pickle_dump(node) == pickle_dump_node(node, <<>>, 0, <<>>)

RECURSIVE pickle_load_node(_, _)
pickle_load_node(bytes, i) ==
  LET e == bytes[i]
      kids == {j \in 1..Len(bytes) : bytes[j].parent = i}
  IN IF e.has_children
     THEN [name |-> e.name, size |-> e.size, is_dir |-> e.is_dir,
           children |-> [k \in {bytes[j].key : j \in kids} |->
                           pickle_load_node(bytes, CHOOSE j \in kids : bytes[j].key = k)]]
     ELSE [name |-> e.name, size |-> e.size, is_dir |-> e.is_dir]

pickle_load(bytes) == pickle_load_node(bytes, 1)

\* Mutant: line 153 without "not force"
use_cache_ignoring_force(force, file, files) == file \in DOMAIN files

\* The test of line 153
use_cache(force, file, files) == ~force /\ file \in DOMAIN files

-----------------------------------------------------------------------------
(* SpecCache: load_tree over index files on disk, then find on the tree loaded *)

IndexFiles == {<<"a", ".", "l">>, <<"a", ".", "t">>, <<"b", ".", "l">>}

\* Index files as dropbox_ls.py prints them: no order, one line per entry, a
\* path is a file or a folder and nothing lies under a file
Listings ==
  {<<[size |-> <<"1">>, path_display |-> <<"/", "A", "/", "b">>],
     [size |-> <<>>, path_display |-> <<"/", "A">>]>>,
   <<[size |-> <<>>, path_display |-> <<"/", "A">>],
     [size |-> <<"0">>, path_display |-> <<"/", "b">>]>>,
   <<[size |-> <<"1">>, path_display |-> <<"/", "b">>]>>}

CaseQueries == {<<"/", "A">>, <<"/", "a">>, <<"/", "A", "/", "b">>, <<"/", "a", "/", "B">>,
                <<"/", "a", "/", "b">>, <<"/", "b">>, <<"/", "B">>, <<"/">>}

InitCache ==
  /\ root = Node(<<>>, TRUE, None)
  /\ last = NoResult
  /\ memoThenAdd = FALSE
  /\ log = <<>>
  /\ phase = "build"
  /\ index \in [IndexFiles -> Listings]
  /\ pickles = <<>>
  /\ loaded = NoNode

LoadTree(index_file, force) ==
  LET file == pickle_file(index_file) IN
  /\ IF use_cache(force, file, pickles)
     THEN /\ loaded' = pickle_load(pickles[file])
          /\ last' = [NoResult EXCEPT !.op = "load_tree",
                        !.arg = [index_file |-> index_file, force |-> force],
                        !.rows = <<"Loading cached tree from:">>]
          /\ UNCHANGED pickles
     ELSE LET df == read_index(index[index_file])
              t == make_tree(df)
          IN IF t.err # ""
             THEN /\ last' = [NoResult EXCEPT !.op = "load_tree",
                                !.arg = [index_file |-> index_file, force |-> force],
                                !.err = t.err, !.key = t.key,
                                !.rows = <<"Loading from index:",
                                           "Building a tree from the index...">>]
                  /\ UNCHANGED <<pickles, loaded>>
             ELSE /\ pickles' = (file :> pickle_dump(t.node)) @@ pickles
                  /\ loaded' = t.node
                  /\ last' = [NoResult EXCEPT !.op = "load_tree",
                                !.arg = [index_file |-> index_file, force |-> force],
                                !.rows = <<"Loading from index:",
                                           "Building a tree from the index...",
                                           "Saving tree:">>]
  /\ UNCHANGED <<root, memoThenAdd, log, phase, index>>

FindLoaded(path) ==
  /\ loaded # NoNode
  /\ LET r == find(loaded, path) IN
     last' = [NoResult EXCEPT !.op = "find", !.arg = path, !.err = r.err, !.key = r.key,
                              !.val = [node |-> r.node, at |-> r.at]]
  /\ UNCHANGED <<root, memoThenAdd, log, phase, index, pickles, loaded>>

NextCache ==
  \/ \E index_file \in IndexFiles, force \in BOOLEAN : LoadTree(index_file, force)
  \/ \E path \in CaseQueries : FindLoaded(path)

SpecCache == InitCache /\ [][NextCache]_vars

\* The tree make_tree builds from an index file as it is on disk
BuiltFrom(index_file) == make_tree(read_index(index[index_file])).node

-----------------------------------------------------------------------------
(* Claims checked under SpecCache *)

\* C4 as claimed: on the tree load_tree built from an index file, find(root, Q)
\* returns the node created for the record path P whenever Q differs from P only
\* in letter case.
C4CaseInsensitiveFind ==
  (last.op = "find" /\ loaded # NoNode) =>
    \A f \in IndexFiles :
      loaded = BuiltFrom(f) =>
        \A i \in 1..Len(index[f]) :
          LET P == index[f][i].path_display IN
          str_lower(last.arg) = str_lower(P) =>
            /\ last.err = ""
            /\ last.val.node = NodeAt(loaded, split_path(str_lower(P)))

\* C7: a load_tree call with force false and a cache entry returns the unpickled
\* entry without building and without rewriting the cache; every other call
\* builds the tree from the index, writes it to the cache location and returns it,
\* and the entry written unpickles to the tree just built, so that the next call
\* with force false returns an identical tree.
C7CacheProtocol ==
  [][last'.op = "load_tree" =>
       LET f == last'.arg.index_file
           file == pickle_file(f)
       IN IF ~last'.arg.force /\ file \in DOMAIN pickles
          THEN /\ loaded' = pickle_load(pickles[file])
               /\ pickles' = pickles
               /\ last'.rows = <<"Loading cached tree from:">>
          ELSE /\ loaded' = BuiltFrom(f)
               /\ "Building a tree from the index..." \in {last'.rows[i] : i \in 1..Len(last'.rows)}
               /\ file \in DOMAIN pickles'
               /\ pickles'[file] = pickle_dump(loaded')
               /\ pickle_load(pickles'[file]) = loaded'
               /\ \A g \in DOMAIN pickles \ {file} : pickles'[g] = pickles[g]]_vars

\* C7 witness: a call with force false has returned, from the cache, a tree of
\* three nodes that equals the tree built from its index file
C7Witness ==
  /\ last.op = "load_tree"
  /\ ~last.arg.force
  /\ last.rows = <<"Loading cached tree from:">>
  /\ loaded = BuiltFrom(last.arg.index_file)
  /\ Cardinality(Positions(loaded)) = 3

\* C10 as claimed: the tree load_tree returns for an index file is a tree built
\* from that index file, since no two index file names share a cache location.
C10CacheNotShared ==
  (last.op = "load_tree" /\ last.err = "") => loaded = BuiltFrom(last.arg.index_file)

====
